---- MODULE Spec2Model ----
(***************************************************************************)
(* Model of the workspace access-control module                            *)
(* (src/src/utils/workspace-access.ts), of its UI callers, and of the      *)
(* collaborative prompt editor (src/unnamed/part_001).                     *)
(*                                                                         *)
(* The hosted backend (blink.db, blink.realtime, blink.auth) is an         *)
(* external collaborator: every call to it is one step that either         *)
(* succeeds with its effect applied, or fails with no effect.              *)
(***************************************************************************)
EXTENDS Integers, FiniteSets, Sequences, TLC

\* ------------------------------------------------------------------ bounds
NumUsers == 2

\* ------------------------------------------------------------ value domains
NULL == "null"
Users == 1..NumUsers
Workspaces == {"ws1", "ws2"}
Roles == {"owner", "editor", "viewer"}
Actions == {"read", "write", "admin"}

VARIABLES
  members,      \* blink.db.workspaceMembers: set of rows
  viewing,      \* the workspace each user's WorkspaceDetail page shows
  userRole,     \* WorkspaceDetail state `userRole` of each user's client
  rm,           \* per requester: the removeWorkspaceMember call in flight
  canQuery,     \* inputs handed to canPerformAction
  canResult,    \* what canPerformAction returned for them
  dbPrompt,     \* blink.db.prompts: the row of the prompt being edited
  dbVersions,   \* blink.db.prompt_versions of that prompt, in creation order
  dbSessions,   \* blink.db.prompt_sessions: ids of the presence rows
  env,          \* who: the user signed in at each editor; log0: the size of
                \* the version log when the editors were opened
  ed,           \* per editor: the state of the CollaborativeEditor component
  timer,        \* per editor: saveTimeoutRef and the callback it will run
  saves,        \* the savePrompt calls in flight
  inbox,        \* per editor: content_change messages not yet delivered
  count,        \* how many edits and clicks the users have made
  nsaves,       \* how many savePrompt calls got past line 104
  hist,         \* per editor: history kept for the properties
  overlap,      \* a savePrompt call began while another one was in flight
  ls,           \* the getUserWorkspaces / getWorkspaceMembers call in flight
  invitations,  \* blink.db.workspaceInvitations: set of rows
  wm,           \* the state of the WorkspaceMembers component
  clock         \* now: the time in hours; zone: the time zone of the browser

accVars == <<members, viewing, userRole, rm>>
canVars == <<canQuery, canResult>>
edVars == <<dbPrompt, dbVersions, dbSessions, env, ed, timer, saves, inbox, count,
            nsaves, hist, overlap>>
uiVars == <<ls, invitations, wm, clock>>
vars == <<members, viewing, userRole, rm, canQuery, canResult,
          dbPrompt, dbVersions, dbSessions, env, ed, timer, saves, inbox, count,
          nsaves, hist, overlap, ls, invitations, wm, clock>>

\* ------------------------------------------------------- membership store
\* id of the row of (workspace, user) in the initial store
RowId(w, u) == IF w = "ws1" THEN u ELSE NumUsers + u

MemberRow(w, u, r) == [id |-> RowId(w, u), workspaceId |-> w, userId |-> u, role |-> r]

\* where: { AND: [{ workspaceId }, { userId }] }
ListByUser(rows, w, u) == {m \in rows : m.workspaceId = w /\ m.userId = u}

\* where: { AND: [{ workspaceId }, { role: 'owner' }] }
ListOwners(rows, w) == {m \in rows : m.workspaceId = w /\ m.role = "owner"}

HasOwner(rows, w) == ListOwners(rows, w) # {}

\* -------------------------------------------------------- canPerformAction
canPerformAction_ViewerWrites(role, action) ==
  CASE action = "read"  -> role \in {"owner", "editor", "viewer"}
    [] action = "write" -> role \in {"owner", "editor", "viewer"}
    [] action = "admin" -> role = "owner"
    [] OTHER -> FALSE

canPerformAction(role, action) ==
  CASE action = "read"  -> role \in {"owner", "editor", "viewer"}
    [] action = "write" -> role \in {"owner", "editor"}
    [] action = "admin" -> role = "owner"
    [] OTHER -> FALSE

\* ----------------------------------------------------- checkWorkspaceAccess
\* lookupOk: the list call resolved; matching: the rows it returned;
\* first: members[0] of that result (any element when the list is not empty)
checkWorkspaceAccess_DefaultCode(lookupOk, matching, first) ==
  IF ~lookupOk THEN [kind |-> "error", code |-> "FORBIDDEN", role |-> NULL]
  ELSE IF matching = {} THEN [kind |-> "error", code |-> "FORBIDDEN", role |-> NULL]
  ELSE [kind |-> "role", code |-> NULL, role |-> first.role]

checkWorkspaceAccess(lookupOk, matching, first) ==
  IF ~lookupOk THEN [kind |-> "error", code |-> "NOT_FOUND", role |-> NULL]
  ELSE IF matching = {} THEN [kind |-> "error", code |-> "FORBIDDEN", role |-> NULL]
  ELSE [kind |-> "role", code |-> NULL, role |-> first.role]

Firsts(matching) == IF matching = {} THEN {NULL} ELSE matching

\* ---------------------------------------------------- removeWorkspaceMember
IdleCall == [pc |-> "idle", workspaceId |-> NULL, userId |-> 0, uiRole |-> NULL,
             lookup |-> NULL, requestingUserRole |-> NULL, rowId |-> 0,
             code |-> NULL, msg |-> NULL, before |-> {}]

NotPermitted_EditorsToo(role, requestingUserId, userId) ==
  role \notin {"owner", "editor"} /\ requestingUserId # userId

\* line 133: requestingUserRole !== 'owner' && requestingUserId !== userId
NotPermitted(role, requestingUserId, userId) ==
  role # "owner" /\ requestingUserId # userId

IsOwnerSelfRemoval_Never(role, requestingUserId, userId) ==
  requestingUserId # userId /\ role = "owner"

\* line 138: requestingUserId === userId && requestingUserRole === 'owner'
IsOwnerSelfRemoval(role, requestingUserId, userId) ==
  requestingUserId = userId /\ role = "owner"

IsLastOwner_OffByOne(owners) == Cardinality(owners) < 1

\* line 148: owners.length <= 1
IsLastOwner(owners) == Cardinality(owners) <= 1

Fail(c, code, msg) == [c EXCEPT !.pc = "failed", !.code = code, !.msg = msg]

NoCallInFlight == \A u \in Users : rm[u].pc = "idle"

StartCall(u, w, t) ==
  [IdleCall EXCEPT !.pc = "check", !.workspaceId = w, !.userId = t,
                   !.uiRole = userRole[u], !.before = members]

\* removeWorkspaceMember(w, t, u) called with any arguments (the function is
\* exported; self-removal is only possible this way)
removeWorkspaceMember(u, w, t) ==
  /\ rm[u].pc = "idle"
  /\ rm' = [rm EXCEPT ![u] = StartCall(u, w, t)]
  /\ UNCHANGED <<members, viewing, userRole, canVars, uiVars, edVars>>

\* WorkspaceMembers.handleRemoveMember(t): the bin button of member t, which
\* line 279 renders when canPerformAction(userRole, 'admin') and t is not
\* the viewer; it passes the page's workspace and the viewer's own id
handleRemoveMember(u, t) ==
  /\ rm[u].pc = "idle"
  /\ viewing[u] # NULL
  /\ canPerformAction(userRole[u], "admin")
  /\ t # u
  /\ rm' = [rm EXCEPT ![u] = StartCall(u, viewing[u], t)]
  /\ UNCHANGED <<members, viewing, userRole, canVars, uiVars, edVars>>

\* line 131: await checkWorkspaceAccess(workspaceId, requestingUserId), then
\* the permission test of line 133 and the branch of line 138
rmCheckAccess(u) ==
  /\ rm[u].pc = "check"
  /\ \E lookupOk \in BOOLEAN :
     \E first \in Firsts(ListByUser(members, rm[u].workspaceId, u)) :
       LET c == rm[u]
           res == checkWorkspaceAccess(lookupOk, ListByUser(members, c.workspaceId, u), first)
           c1 == [c EXCEPT !.lookup = IF lookupOk THEN "ok" ELSE "failed",
                           !.requestingUserRole = res.role]
       IN rm' = [rm EXCEPT ![u] =
            IF res.kind = "error"
              THEN Fail(c1, res.code, IF lookupOk THEN "not_member" ELSE "lookup_failed")
            ELSE IF NotPermitted(res.role, u, c.userId)
              THEN Fail(c1, "FORBIDDEN", "owners_only")
            ELSE IF IsOwnerSelfRemoval(res.role, u, c.userId)
              THEN [c1 EXCEPT !.pc = "owners"]
            ELSE [c1 EXCEPT !.pc = "find"]]
  /\ UNCHANGED <<members, viewing, userRole, canVars, uiVars, edVars>>

\* lines 139-150: list the owners, refuse when at most one is left
rmCountOwners(u) ==
  /\ rm[u].pc = "owners"
  /\ \E listOk \in BOOLEAN :
       rm' = [rm EXCEPT ![u] =
         IF ~listOk THEN Fail(rm[u], "FORBIDDEN", "failed")
         ELSE IF IsLastOwner(ListOwners(members, rm[u].workspaceId))
           THEN Fail(rm[u], "FORBIDDEN", "last_owner")
         ELSE [rm[u] EXCEPT !.pc = "find"]]
  /\ UNCHANGED <<members, viewing, userRole, canVars, uiVars, edVars>>

\* a lookup that treats a missing row as an error
rmFindMember_Strict(u) ==
  /\ rm[u].pc = "find"
  /\ \E listOk \in BOOLEAN :
     \E first \in Firsts(ListByUser(members, rm[u].workspaceId, rm[u].userId)) :
       rm' = [rm EXCEPT ![u] =
         IF ~listOk THEN Fail(rm[u], "FORBIDDEN", "failed")
         ELSE IF ListByUser(members, rm[u].workspaceId, rm[u].userId) = {}
           THEN Fail(rm[u], "NOT_FOUND", "no_row")
         ELSE [rm[u] EXCEPT !.pc = "delete", !.rowId = first.id]]
  /\ UNCHANGED <<members, viewing, userRole, canVars, uiVars, edVars>>

\* lines 154-163: look the target's row up
rmFindMember(u) ==
  /\ rm[u].pc = "find"
  /\ \E listOk \in BOOLEAN :
     \E first \in Firsts(ListByUser(members, rm[u].workspaceId, rm[u].userId)) :
       rm' = [rm EXCEPT ![u] =
         IF ~listOk THEN Fail(rm[u], "FORBIDDEN", "failed")
         ELSE IF ListByUser(members, rm[u].workspaceId, rm[u].userId) = {}
           THEN [rm[u] EXCEPT !.pc = "ok"]
         ELSE [rm[u] EXCEPT !.pc = "delete", !.rowId = first.id]]
  /\ UNCHANGED <<members, viewing, userRole, canVars, uiVars, edVars>>

\* line 164: await blink.db.workspaceMembers.delete(members[0].id)
rmDelete(u) ==
  /\ rm[u].pc = "delete"
  /\ \E deleteOk \in BOOLEAN :
       IF deleteOk
         THEN /\ members' = {m \in members : m.id # rm[u].rowId}
              /\ rm' = [rm EXCEPT ![u].pc = "ok"]
         ELSE /\ members' = members
              /\ rm' = [rm EXCEPT ![u] = Fail(rm[u], "FORBIDDEN", "failed")]
  /\ UNCHANGED <<viewing, userRole, canVars, uiVars, edVars>>

\* the promise settles and handleRemoveMember shows its toast
rmReturn(u) ==
  /\ rm[u].pc \in {"ok", "failed"}
  /\ rm' = [rm EXCEPT ![u] = IdleCall]
  /\ UNCHANGED <<members, viewing, userRole, canVars, uiVars, edVars>>

\* WorkspaceDetail.loadWorkspaceData(u, w): the role the page holds is the one
\* checkWorkspaceAccess returned when the page was loaded; on an error the
\* page is left (navigate('/dashboard'))
loadWorkspaceData(u, w) ==
  /\ rm[u].pc = "idle"
  /\ \E lookupOk \in BOOLEAN :
     \E first \in Firsts(ListByUser(members, w, u)) :
       LET res == checkWorkspaceAccess(lookupOk, ListByUser(members, w, u), first)
       IN IF res.kind = "role"
            THEN /\ userRole' = [userRole EXCEPT ![u] = res.role]
                 /\ viewing' = [viewing EXCEPT ![u] = w]
            ELSE /\ userRole' = [userRole EXCEPT ![u] = NULL]
                 /\ viewing' = [viewing EXCEPT ![u] = NULL]
  /\ UNCHANGED <<members, rm, canVars, uiVars, edVars>>

\* =========================================================== prompt editor
\* ------------------------------------------------------------------ bounds
NumSessions == 2
MaxOps == 2
TicksPerDelay == 1

\* ------------------------------------------------------- program constants
SAVE_DELAY_MS == 2000
VERSIONS_LIMIT == 20

Sessions == 1..NumSessions
Vals == {"a", "b"}

Draft(c, t, d) == [content |-> c, title |-> t, description |-> d]

\* x || ''
OrEmpty(x) == IF x = NULL THEN "" ELSE x

\* the row WorkspaceDetail.createPrompt creates: no description, version 1
NewPrompt ==
  [content |-> "Start writing your prompt here...", title |-> "New Prompt",
   description |-> NULL, version |-> 1]

\* the component right after useState: isLoading, nothing loaded
Mounted ==
  [pc |-> "loading", prompt |-> FALSE, content |-> "", title |-> "",
   description |-> "", versions |-> {}, isSaving |-> FALSE, lastSaved |-> 0,
   sessionId |-> 0, subscribed |-> FALSE]

\* the component after the unmount: its state is gone; the channel is still
\* subscribed, because the function startRealtimeUpdates returns (line 190)
\* is dropped by its caller (line 246)
Unmounted(c) == [Mounted EXCEPT !.pc = "closed", !.subscribed = c.subscribed]

NoTimer == [armed |-> FALSE, remaining |-> 0, draft |-> Draft("", "", ""), versions |-> {}]

\* since: ticks since the last local edit while its timer is pending; last:
\* the three fields as that edit left them; edits: local edits made;
\* fired: timer-driven saves since that edit; cancelled: its timer was cleared
\* by a manual save or by the unmount; acted: the user edited or clicked;
\* started: savePrompt calls made; published: messages published; restored:
\* the fields of the version restored by the last click on the version list
\* while no save of the editor was in flight (done: its save has finished),
\* emptied by a later edit or Save Now of the editor and by a later write of
\* another editor's save
NoHist == [since |-> 0, last |-> Draft("", "", ""), edits |-> 0, fired |-> 0,
           cancelled |-> FALSE, acted |-> FALSE, started |-> 0, published |-> 0,
           restored |-> {}]

CurrentDraft(s) == Draft(ed[s].content, ed[s].title, ed[s].description)

Range(f) == {f[i] : i \in DOMAIN f}

SetMax(S) == CHOOSE x \in S : \A y \in S : y <= x

\* orderBy: { version_number: 'desc' }
Outranks(a, b) ==
  \/ a.version_number > b.version_number
  \/ a.version_number = b.version_number /\ a.id > b.id

\* blink.db.prompt_versions.list({ where, orderBy desc, limit })
ListVersions(rows, limit) ==
  {v \in Range(rows) : Cardinality({w \in Range(rows) : Outranks(w, v)}) < limit}

\* line 118: Math.max(...versions.map(v => v.version_number), 0) + 1
nextVersionNumber(versions) ==
  SetMax({v.version_number : v \in versions} \cup {0}) + 1

\* the record of line 120-129
VersionRecord(id, n, draft, userId) ==
  [id |-> id, version_number |-> n, content |-> draft.content,
   title |-> draft.title, description |-> draft.description, user_id |-> userId]

\* a publish that sends the fields as they were before the edit
Publish_Stale(s, draft) ==
  [r \in Sessions |->
     IF r # s /\ ed[r].subscribed /\ ed[r].pc # "closed"
       THEN inbox[r] \cup {[from |-> s, userId |-> env.who[s], data |-> CurrentDraft(s)]}
       ELSE inbox[r]]

\* blink.realtime.publish(`prompt_${promptId}`, 'content_change', draft): the
\* channel hands the message to every other subscriber. A message for an
\* unmounted editor is left out: its handler only calls setState, which has
\* no effect there
Publish(s, draft) ==
  [r \in Sessions |->
     IF r # s /\ ed[r].subscribed /\ ed[r].pc # "closed"
       THEN inbox[r] \cup {[from |-> s, userId |-> env.who[s], data |-> draft]}
       ELSE inbox[r]]

\* savePrompt(draft) is entered: line 104 returns at once when the prompt or
\* the user is not loaded; otherwise setIsSaving(true) and the update is sent.
\* versions is the `versions` state the calling closure was created with.
SaveCall(s, draft, versions, kind, from) ==
  [id |-> nsaves + 1, s |-> s, pc |-> "update", draft |-> draft,
   versions |-> versions, kind |-> kind, from |-> from]

savePrompt(s, draft, versions, kind, from, ed1) ==
  IF ~ed[s].prompt
    THEN /\ saves' = saves
         /\ ed' = ed1
         /\ nsaves' = nsaves
         /\ overlap' = overlap
    ELSE /\ saves' = saves \cup {SaveCall(s, draft, versions, kind, from)}
         /\ ed' = [ed1 EXCEPT ![s].isSaving = TRUE]
         /\ nsaves' = nsaves + 1
         /\ overlap' = (overlap \/ saves # {})

Started(s) == IF ed[s].prompt THEN 1 ELSE 0

\* setState on a component that is unmounted changes nothing
SetState(s, new) == IF ed[s].pc = "closed" THEN ed ELSE [ed EXCEPT ![s] = new]

\* ---- load (useEffect, lines 196-260), taken as one step. failed names the
\* first call that threw: "me" or "prompt" go to the catch of line 248 and
\* leave the editor shown with no prompt; "versions" is swallowed by
\* loadVersions; "session" skips startRealtimeUpdates; "none": all succeed.
LoadFailures == {"none", "prompt", "versions", "session"}

loadData(s, failed) ==
  /\ ed[s].pc = "loading"
  /\ ed' = [ed EXCEPT ![s] =
       IF failed = "prompt" THEN [ed[s] EXCEPT !.pc = "ready"]
       ELSE [ed[s] EXCEPT
               !.pc = "ready", !.prompt = TRUE,
               !.content = OrEmpty(dbPrompt.content),
               !.title = OrEmpty(dbPrompt.title),
               !.description = OrEmpty(dbPrompt.description),
               !.versions = IF failed = "versions" THEN ed[s].versions
                            ELSE ListVersions(dbVersions, VERSIONS_LIMIT),
               !.sessionId = s,
               !.subscribed = (failed # "session")]]
  /\ dbSessions' = IF failed \in {"prompt", "session"} THEN dbSessions
                   ELSE dbSessions \cup {s}
  /\ UNCHANGED <<dbPrompt, dbVersions, env, timer, saves, inbox,
                 count, nsaves, hist, overlap, accVars, canVars, uiVars>>

\* an edit that leaves a pending timeout as it is
LocalEdit_NoRestart(s, draft) ==
  /\ ed[s].pc = "ready"
  /\ count < MaxOps
  /\ draft # CurrentDraft(s)
  /\ ed' = [ed EXCEPT ![s].content = draft.content, ![s].title = draft.title,
                      ![s].description = draft.description]
  /\ inbox' = Publish(s, draft)
  /\ timer' = [timer EXCEPT ![s] =
                 IF timer[s].armed THEN timer[s]
                 ELSE [armed |-> TRUE, remaining |-> TicksPerDelay,
                       draft |-> draft, versions |-> ed[s].versions]]
  /\ count' = count + 1
  /\ hist' = [hist EXCEPT ![s].since = 0, ![s].last = draft, ![s].acted = TRUE,
                          ![s].edits = @ + 1,
                          ![s].fired = 0, ![s].cancelled = FALSE,
                          ![s].published = @ + 1, ![s].restored = {}]
  /\ UNCHANGED <<dbPrompt, dbVersions, dbSessions, env, saves, nsaves, overlap, accVars, canVars, uiVars>>

\* ---- local edits (lines 275-337)
\* setX(new), publish the three fields, clear the timer, arm a new one whose
\* callback is savePrompt(fields of this edit) of the current render
LocalEdit(s, draft) ==
  /\ ed[s].pc = "ready"
  /\ count < MaxOps
  /\ draft # CurrentDraft(s)
  /\ ed' = [ed EXCEPT ![s].content = draft.content, ![s].title = draft.title,
                      ![s].description = draft.description]
  /\ inbox' = Publish(s, draft)
  /\ timer' = [timer EXCEPT ![s] = [armed |-> TRUE, remaining |-> TicksPerDelay,
                                    draft |-> draft, versions |-> ed[s].versions]]
  /\ count' = count + 1
  /\ hist' = [hist EXCEPT ![s].since = 0, ![s].last = draft, ![s].acted = TRUE,
                          ![s].edits = @ + 1,
                          ![s].fired = 0, ![s].cancelled = FALSE,
                          ![s].published = @ + 1, ![s].restored = {}]
  /\ UNCHANGED <<dbPrompt, dbVersions, dbSessions, env, saves, nsaves, overlap, accVars, canVars, uiVars>>

handleContentChange(s, newContent) ==
  LocalEdit(s, Draft(newContent, ed[s].title, ed[s].description))

handleTitleChange(s, newTitle) ==
  LocalEdit(s, Draft(ed[s].content, newTitle, ed[s].description))

handleDescriptionChange(s, newDescription) ==
  LocalEdit(s, Draft(ed[s].content, ed[s].title, newDescription))

\* ---- time: one tick is SAVE_DELAY_MS / TicksPerDelay; a timeout that is due
\* runs before the clock moves on
tick ==
  /\ \E s \in Sessions : timer[s].armed
  /\ \A s \in Sessions : timer[s].armed => timer[s].remaining > 0
  /\ timer' = [s \in Sessions |->
                 IF timer[s].armed THEN [timer[s] EXCEPT !.remaining = @ - 1]
                 ELSE timer[s]]
  /\ hist' = [s \in Sessions |->
                IF timer[s].armed THEN [hist[s] EXCEPT !.since = @ + 1] ELSE hist[s]]
  /\ UNCHANGED <<dbPrompt, dbVersions, dbSessions, env, ed, saves, inbox, count,
                 nsaves, overlap, accVars, canVars, uiVars>>

\* a timeout that saves what the editor shows when it runs
timerFire_SavesShown(s) ==
  /\ timer[s].armed
  /\ timer[s].remaining = 0
  /\ timer' = [timer EXCEPT ![s] = NoTimer]
  /\ savePrompt(s, CurrentDraft(s), timer[s].versions, "timer", 0, ed)
  /\ hist' = [hist EXCEPT ![s].fired = @ + 1, ![s].started = @ + Started(s)]
  /\ UNCHANGED <<dbPrompt, dbVersions, dbSessions, env, inbox, count, accVars, canVars, uiVars>>

\* lines 291-293: the timeout runs savePrompt with the values of its edit
timerFire(s) ==
  /\ timer[s].armed
  /\ timer[s].remaining = 0
  /\ timer' = [timer EXCEPT ![s] = NoTimer]
  /\ savePrompt(s, timer[s].draft, timer[s].versions, "timer", 0, ed)
  /\ hist' = [hist EXCEPT ![s].fired = @ + 1, ![s].started = @ + Started(s)]
  /\ UNCHANGED <<dbPrompt, dbVersions, dbSessions, env, inbox, count, accVars, canVars, uiVars>>

\* a click on Save Now that leaves the timeout pending
handleManualSave_KeepsTimer(s) ==
  /\ ed[s].pc = "ready"
  /\ ~ed[s].isSaving
  /\ count < MaxOps
  /\ timer' = timer
  /\ savePrompt(s, CurrentDraft(s), ed[s].versions, "manual", 0, ed)
  /\ hist' = [hist EXCEPT ![s].cancelled = (@ \/ timer[s].armed), ![s].acted = TRUE,
                          ![s].started = @ + Started(s), ![s].restored = {}]
  /\ count' = count + 1
  /\ UNCHANGED <<dbPrompt, dbVersions, dbSessions, env, inbox, accVars, canVars, uiVars>>

\* lines 340-345; the button is disabled while isSaving
handleManualSave(s) ==
  /\ ed[s].pc = "ready"
  /\ ~ed[s].isSaving
  /\ count < MaxOps
  /\ timer' = [timer EXCEPT ![s] = NoTimer]
  /\ savePrompt(s, CurrentDraft(s), ed[s].versions, "manual", 0, ed)
  /\ hist' = [hist EXCEPT ![s].cancelled = (@ \/ timer[s].armed), ![s].acted = TRUE,
                          ![s].started = @ + Started(s), ![s].restored = {}]
  /\ count' = count + 1
  /\ UNCHANGED <<dbPrompt, dbVersions, dbSessions, env, inbox, accVars, canVars, uiVars>>

RestoredDraft_Swapped(version) ==
  Draft(version.content, OrEmpty(version.description), OrEmpty(version.title))

\* lines 350-362: what restoreVersion shows, publishes and saves
RestoredDraft(version) ==
  Draft(version.content, OrEmpty(version.title), OrEmpty(version.description))

\* lines 348-376: a click on an entry of the version list; the pending timer
\* is left alone
restoreVersion(s, version) ==
  /\ ed[s].pc = "ready"
  /\ version \in ed[s].versions
  /\ count < MaxOps
  /\ inbox' = Publish(s, RestoredDraft(version))
  /\ savePrompt(s, RestoredDraft(version), ed[s].versions, "restore", version.id,
                [ed EXCEPT ![s].content = RestoredDraft(version).content,
                           ![s].title = RestoredDraft(version).title,
                           ![s].description = RestoredDraft(version).description])
  /\ hist' = [hist EXCEPT ![s].started = @ + Started(s), ![s].published = @ + 1,
                          ![s].acted = TRUE,
                          ![s].restored = IF ed[s].prompt /\ \A c \in saves : c.s # s
                                            THEN {[draft |-> RestoredDraft(version), done |-> FALSE]}
                                            ELSE {}]
  /\ count' = count + 1
  /\ UNCHANGED <<dbPrompt, dbVersions, dbSessions, env, timer, accVars, canVars, uiVars>>

\* an update whose failure puts the persisted fields back into the editor
svUpdate_Rollback(c, ok) ==
  /\ c \in saves
  /\ c.pc = "update"
  /\ IF ok
       THEN /\ dbPrompt' = [dbPrompt EXCEPT !.content = c.draft.content,
                                            !.title = c.draft.title,
                                            !.description = c.draft.description]
            /\ saves' = (saves \ {c}) \cup {[c EXCEPT !.pc = "create"]}
            /\ ed' = ed
            /\ hist' = [r \in Sessions |->
                          IF r = c.s THEN hist[r] ELSE [hist[r] EXCEPT !.restored = {}]]
       ELSE /\ dbPrompt' = dbPrompt
            /\ saves' = saves \ {c}
            /\ ed' = SetState(c.s, [ed[c.s] EXCEPT !.isSaving = FALSE,
                                                  !.content = OrEmpty(dbPrompt.content),
                                                  !.title = OrEmpty(dbPrompt.title),
                                                  !.description = OrEmpty(dbPrompt.description)])
            /\ hist' = hist
  /\ UNCHANGED <<dbVersions, dbSessions, env, timer, inbox, count, nsaves,
                 overlap, accVars, canVars, uiVars>>

\* ---- savePrompt after its first await (lines 110-148)
\* line 110-115: the prompt row is updated; an error goes to the catch and
\* the finally of line 146
svUpdate(c, ok) ==
  /\ c \in saves
  /\ c.pc = "update"
  /\ IF ok
       THEN /\ dbPrompt' = [dbPrompt EXCEPT !.content = c.draft.content,
                                            !.title = c.draft.title,
                                            !.description = c.draft.description]
            /\ saves' = (saves \ {c}) \cup {[c EXCEPT !.pc = "create"]}
            /\ ed' = ed
            /\ hist' = [r \in Sessions |->
                          IF r = c.s THEN hist[r] ELSE [hist[r] EXCEPT !.restored = {}]]
       ELSE /\ dbPrompt' = dbPrompt
            /\ saves' = saves \ {c}
            /\ ed' = SetState(c.s, [ed[c.s] EXCEPT !.isSaving = FALSE])
            /\ hist' = hist
  /\ UNCHANGED <<dbVersions, dbSessions, env, timer, inbox, count, nsaves,
                 overlap, accVars, canVars, uiVars>>

\* a create that replaces the record holding the same version number
svCreate_Upsert(c, ok) ==
  /\ c \in saves
  /\ c.pc = "create"
  /\ IF ok
       THEN /\ dbVersions' =
                 IF \E i \in 1..Len(dbVersions) :
                      dbVersions[i].version_number = nextVersionNumber(c.versions)
                   THEN [i \in 1..Len(dbVersions) |->
                          IF dbVersions[i].version_number = nextVersionNumber(c.versions)
                            THEN VersionRecord(i, nextVersionNumber(c.versions),
                                               c.draft, env.who[c.s])
                            ELSE dbVersions[i]]
                   ELSE Append(dbVersions,
                          VersionRecord(Len(dbVersions) + 1, nextVersionNumber(c.versions),
                                        c.draft, env.who[c.s]))
            /\ saves' = (saves \ {c}) \cup {[c EXCEPT !.pc = "list"]}
            /\ ed' = SetState(c.s, [ed[c.s] EXCEPT !.lastSaved = c.id])
       ELSE /\ dbVersions' = dbVersions
            /\ saves' = saves \ {c}
            /\ ed' = SetState(c.s, [ed[c.s] EXCEPT !.isSaving = FALSE])
  /\ UNCHANGED <<dbPrompt, dbSessions, env, timer, inbox, count, nsaves, hist,
                 overlap, accVars, canVars, uiVars>>

\* lines 118-131: the version record, numbered from the closure's versions
svCreate(c, ok) ==
  /\ c \in saves
  /\ c.pc = "create"
  /\ IF ok
       THEN /\ dbVersions' = Append(dbVersions,
                 VersionRecord(Len(dbVersions) + 1, nextVersionNumber(c.versions),
                               c.draft, env.who[c.s]))
            /\ saves' = (saves \ {c}) \cup {[c EXCEPT !.pc = "list"]}
            /\ ed' = SetState(c.s, [ed[c.s] EXCEPT !.lastSaved = c.id])
       ELSE /\ dbVersions' = dbVersions
            /\ saves' = saves \ {c}
            /\ ed' = SetState(c.s, [ed[c.s] EXCEPT !.isSaving = FALSE])
  /\ UNCHANGED <<dbPrompt, dbSessions, env, timer, inbox, count, nsaves, hist,
                 overlap, accVars, canVars, uiVars>>

\* lines 132-148: await loadVersions(), then the finally
svList(c, ok) ==
  /\ c \in saves
  /\ c.pc = "list"
  /\ saves' = saves \ {c}
  /\ ed' = SetState(c.s, [ed[c.s] EXCEPT
             !.isSaving = FALSE,
             !.versions = IF ok THEN ListVersions(dbVersions, VERSIONS_LIMIT)
                          ELSE ed[c.s].versions])
  /\ hist' = [hist EXCEPT ![c.s].restored =
                 IF c.kind = "restore" /\ @ = {[draft |-> c.draft, done |-> FALSE]}
                   THEN {[draft |-> c.draft, done |-> TRUE]}
                   ELSE @]
  /\ UNCHANGED <<dbPrompt, dbVersions, dbSessions, env, timer, inbox, count, nsaves,
                 overlap, accVars, canVars, uiVars>>

\* ---- realtime (lines 164-170)
Accepts_OnlyOwn(self, m) == m.userId = self

\* line 165: message.userId !== currentUser?.id
Accepts(self, m) == m.userId # self

\* self is the currentUser of the closure that subscribed: the signed-in
\* user, or nobody (0) for the closure of the first render, which the effect
\* of line 196 runs before setCurrentUser has taken effect
Selves(s) == {0, env.who[s]}

\* a handler that treats the remote change as a local edit
onMessage_AsEdit(s, m, self) ==
  /\ m \in inbox[s]
  /\ inbox' = [inbox EXCEPT ![s] = @ \ {m}]
  /\ ed' = IF Accepts(self, m)
             THEN SetState(s, [ed[s] EXCEPT !.content = m.data.content,
                                            !.title = OrEmpty(m.data.title),
                                            !.description = OrEmpty(m.data.description)])
             ELSE ed
  /\ timer' = [timer EXCEPT ![s] = [armed |-> TRUE, remaining |-> TicksPerDelay,
                                    draft |-> m.data, versions |-> ed[s].versions]]
  /\ UNCHANGED <<dbPrompt, dbVersions, dbSessions, env, saves, count, nsaves,
                 hist, overlap, accVars, canVars, uiVars>>

onMessage(s, m, self) ==
  /\ m \in inbox[s]
  /\ inbox' = [inbox EXCEPT ![s] = @ \ {m}]
  /\ ed' = IF Accepts(self, m)
             THEN SetState(s, [ed[s] EXCEPT !.content = m.data.content,
                                            !.title = OrEmpty(m.data.title),
                                            !.description = OrEmpty(m.data.description)])
             ELSE ed
  /\ UNCHANGED <<dbPrompt, dbVersions, dbSessions, env, timer, saves, count, nsaves,
                 hist, overlap, accVars, canVars, uiVars>>

\* lines 172-187: the sessions shown to r as online are the subscribers of
\* the channel whose user is not r's own
OnlineFor(r) ==
  {s \in Sessions \ {r} : ed[s].subscribed /\ env.who[s] # env.who[r]}

\* an unmount that leaves the timeout pending
close_KeepsTimer(s, ok) ==
  /\ ed[s].pc = "ready"
  /\ ed' = [ed EXCEPT ![s] = Unmounted(ed[s])]
  /\ inbox' = [inbox EXCEPT ![s] = {}]
  /\ timer' = timer
  /\ dbSessions' = IF ok THEN dbSessions \ {ed[s].sessionId} ELSE dbSessions
  /\ hist' = [hist EXCEPT ![s].cancelled = (@ \/ timer[s].armed)]
  /\ UNCHANGED <<dbPrompt, dbVersions, env, saves, count, nsaves, overlap,
                 accVars, canVars, uiVars>>

\* ---- unmount (lines 263-271): the timer is cleared and the presence row
\* deleted; the delete is not awaited and its error only logged
close(s, ok) ==
  /\ ed[s].pc = "ready"
  /\ ed' = [ed EXCEPT ![s] = Unmounted(ed[s])]
  /\ inbox' = [inbox EXCEPT ![s] = {}]
  /\ timer' = [timer EXCEPT ![s] = NoTimer]
  /\ dbSessions' = IF ok THEN dbSessions \ {ed[s].sessionId} ELSE dbSessions
  /\ hist' = [hist EXCEPT ![s].cancelled = (@ \/ timer[s].armed)]
  /\ UNCHANGED <<dbPrompt, dbVersions, env, saves, count, nsaves, overlap,
                 accVars, canVars, uiVars>>

\* ---- unmount while loadData is still awaiting (pc "loading"): the cleanup
\* finds no timer and no currentSessionId, so it deletes nothing; loadData
\* goes on in the unmounted component
closeWhileLoading(s) ==
  /\ ed[s].pc = "loading"
  /\ ed' = [ed EXCEPT ![s] = [Unmounted(ed[s]) EXCEPT !.pc = "orphan"]]
  /\ UNCHANGED <<dbPrompt, dbVersions, dbSessions, env, timer, saves, inbox, count,
                 nsaves, hist, overlap, accVars, canVars, uiVars>>

\* lines 232-246 after that unmount: the presence row is created and the
\* channel subscribed; the setState calls have no effect
loadAfterClose(s, failed) ==
  /\ ed[s].pc = "orphan"
  /\ ed' = [ed EXCEPT ![s].pc = "closed",
                      ![s].subscribed = (failed \notin {"prompt", "session"})]
  /\ dbSessions' = IF failed \in {"prompt", "session"} THEN dbSessions
                   ELSE dbSessions \cup {s}
  /\ UNCHANGED <<dbPrompt, dbVersions, env, timer, saves, inbox, count,
                 nsaves, hist, overlap, accVars, canVars, uiVars>>

\* ---- initial states of the editor
IdleEditor ==
  /\ dbPrompt = NewPrompt
  /\ dbVersions = << >>
  /\ dbSessions = {}
  /\ env = [who |-> [s \in Sessions |-> 1], log0 |-> 0]
  /\ ed = [s \in Sessions |-> Mounted]
  /\ timer = [s \in Sessions |-> NoTimer]
  /\ saves = {}
  /\ inbox = [s \in Sessions |-> {}]
  /\ count = 0
  /\ nsaves = 0
  /\ hist = [s \in Sessions |-> NoHist]
  /\ overlap = FALSE

\* what an earlier editing session of user 1 saved as version 1
SavedDraft == Draft("a", "New Prompt", "")

\* the prompt is new, with an empty version log, or has been saved once
\* before; the editors are opened by any users (the first one by user 1)
InitEditorWith(Logs) ==
  /\ \E n \in Logs :
       /\ dbPrompt = IF n = 0 THEN NewPrompt
                     ELSE [NewPrompt EXCEPT !.content = SavedDraft.content,
                                            !.description = SavedDraft.description]
       /\ dbVersions = IF n = 0 THEN << >> ELSE <<VersionRecord(1, 1, SavedDraft, 1)>>
       /\ env \in {[who |-> f, log0 |-> n] : f \in {g \in [Sessions -> Users] : g[1] = 1}}
  /\ dbSessions = {}
  /\ ed = [s \in Sessions |-> Mounted]
  /\ timer = [s \in Sessions |-> NoTimer]
  /\ saves = {}
  /\ inbox = [s \in Sessions |-> {}]
  /\ count = 0
  /\ nsaves = 0
  /\ hist = [s \in Sessions |-> NoHist]
  /\ overlap = FALSE

InitEditor == InitEditorWith({0})

IdleAccess ==
  /\ members = {}
  /\ userRole = [u \in Users |-> NULL]
  /\ viewing = [u \in Users |-> NULL]
  /\ rm = [u \in Users |-> IdleCall]

\* ================================== addWorkspaceMember and createWorkspace
\* ------------------------------------------------------------------ bounds
MaxAdds == 2

\* the rows addWorkspaceMember has created (the initial rows have the ids
\* RowId gives them)
Added(rows) == {m \in rows : m.id > 2 * NumUsers}

\* the id the store gives the next row it creates
NextRowId(rows) == SetMax({m.id : m \in rows} \cup {2 * NumUsers}) + 1

\* lines 98-119: the row is created with whatever is passed in; nothing is
\* looked up first. A failing create throws and adds nothing
addWorkspaceMember(w, u, role, ok) ==
  /\ Cardinality(Added(members)) < MaxAdds
  /\ members' = IF ok
                  THEN members \cup {[id |-> NextRowId(members), workspaceId |-> w,
                                       userId |-> u, role |-> role]}
                  ELSE members
  /\ UNCHANGED <<viewing, userRole, rm, canVars, uiVars, edVars>>

\* Dashboard.createWorkspace (lines 308-328): a workspace with a new id is
\* created and its creator added as owner; an error of either call is logged
createWorkspace(u, w, createOk, addOk) ==
  /\ \A m \in members : m.workspaceId # w
  /\ IF createOk THEN addWorkspaceMember(w, u, "owner", addOk)
     ELSE UNCHANGED vars

\* ========================================= getUserWorkspaces, getWorkspaceMembers
\* rows in the order of orderBy: { createdAt: 'asc' }; rows are created in the
\* order of their ids
RECURSIVE SortedById(_)
SortedById(rows) ==
  IF rows = {} THEN << >>
  ELSE LET first == CHOOSE m \in rows : \A n \in rows : m.id <= n.id
       IN <<first>> \o SortedById(rows \ {first})

\* where: { userId }
ListMemberships(rows, u) == {m \in rows : m.userId = u}

\* where: { workspaceId }, orderBy createdAt
ListMembers(rows, w) == SortedById({m \in rows : m.workspaceId = w})

\* blink.db.workspaces.list({ where: { id: { in: workspaceIds } } }) and the
\* map of lines 64-70: every workspace with the role of the membership found
WithRoles(memberships) ==
  {[id |-> w,
    user_role |-> (CHOOSE m \in memberships : m.workspaceId = w).role]
   : w \in {x \in Workspaces : \E m \in memberships : m.workspaceId = x}}

Rethrown(value) == [raised |-> TRUE, value |-> NULL]

\* lines 72-75 and 89-92: the catch logs and returns []
Swallowed(value) == [raised |-> FALSE, value |-> value]

IdleList == [pc |-> "idle", fn |-> NULL, arg |-> NULL, memberships |-> {},
             failed |-> FALSE, raised |-> FALSE, result |-> NULL]

Settle(c, failed, outcome) ==
  [c EXCEPT !.pc = "done", !.failed = failed, !.raised = outcome.raised,
            !.result = outcome.value]

getUserWorkspaces(u) ==
  /\ ls.pc = "idle"
  /\ ls' = [IdleList EXCEPT !.pc = "memberships", !.fn = "getUserWorkspaces", !.arg = u]
  /\ UNCHANGED <<invitations, wm, clock, accVars, canVars, edVars>>

\* lines 48-54
lsMemberships(ok) ==
  /\ ls.pc = "memberships"
  /\ ls' = IF ~ok THEN Settle(ls, TRUE, Swallowed({}))
           ELSE IF ListMemberships(members, ls.arg) = {} THEN Settle(ls, FALSE, Swallowed({}))
           ELSE [ls EXCEPT !.pc = "workspaces",
                           !.memberships = ListMemberships(members, ls.arg)]
  /\ UNCHANGED <<invitations, wm, clock, accVars, canVars, edVars>>

\* lines 57-71
lsWorkspaces(ok) ==
  /\ ls.pc = "workspaces"
  /\ ls' = IF ~ok THEN Settle(ls, TRUE, Swallowed({}))
           ELSE Settle(ls, FALSE, Swallowed(WithRoles(ls.memberships)))
  /\ UNCHANGED <<invitations, wm, clock, accVars, canVars, edVars>>

getWorkspaceMembers(w) ==
  /\ ls.pc = "idle"
  /\ ls' = [IdleList EXCEPT !.pc = "members", !.fn = "getWorkspaceMembers", !.arg = w]
  /\ UNCHANGED <<invitations, wm, clock, accVars, canVars, edVars>>

\* lines 83-92
lsMembers(ok) ==
  /\ ls.pc = "members"
  /\ ls' = IF ~ok THEN Settle(ls, TRUE, Swallowed(<< >>))
           ELSE Settle(ls, FALSE, Swallowed(ListMembers(members, ls.arg)))
  /\ UNCHANGED <<invitations, wm, clock, accVars, canVars, edVars>>

\* the caller takes the result
lsReturn ==
  /\ ls.pc = "done"
  /\ ls' = IdleList
  /\ UNCHANGED <<invitations, wm, clock, accVars, canVars, edVars>>

\* ======================================= WorkspaceMembers: the invitations
\* ------------------------------------------------------------------ bounds
MaxStart == 1
Switch == 100
MaxInvites == 2

\* ------------------------------------------------------- program constants
INVITE_DAYS == 7
HoursPerDay == 24

\* time is counted in hours. A browser runs in UTC, or in a zone whose clock
\* goes from UTC+1 to UTC+2 at hour Switch, or from UTC+2 back to UTC+1
Zones == {"utc", "spring", "autumn"}

Offset(zone, t) ==
  CASE zone = "spring" -> IF t < Switch THEN 1 ELSE 2
    [] zone = "autumn" -> IF t < Switch THEN 2 ELSE 1
    [] OTHER -> 0

OffsetBefore(zone) ==
  CASE zone = "spring" -> 1
    [] zone = "autumn" -> 2
    [] OTHER -> 0

\* the local time fields of a Date, as hours
LocalTime(zone, t) == t + Offset(zone, t)

\* the instant of a local time; a local time that does not exist or exists
\* twice is read with the offset in force before the change
UtcOf(zone, l) ==
  LET c == {u \in (l - 2)..l : u + Offset(zone, u) = l}
  IN IF Cardinality(c) = 1 THEN CHOOSE u \in c : TRUE ELSE l - OffsetBefore(zone)

\* lines 87-88, 95: new Date(), setDate(getDate() + 7), toISOString()
ExpiresAt(zone, t) == UtcOf(zone, LocalTime(zone, t) + INVITE_DAYS * HoursPerDay)

Emails == {"", "a@x.io", " A@x.io"}

\* inviteEmail.toLowerCase().trim()
NormalisedEmail(e) == IF e = " A@x.io" THEN "a@x.io" ELSE e

Invitation(id, w, email, role, by, zone, t) ==
  [id |-> id, workspaceId |-> w, email |-> email, role |-> role, invitedBy |-> by,
   createdAt |-> t, expiresAt |-> ExpiresAt(zone, t), acceptedAt |-> NULL]

ListPending_Any(rows, w) == {i \in rows : i.workspaceId = w}

\* lines 48-55: where: { AND: [{ workspaceId }, { acceptedAt: null }] }
ListPending(rows, w) == {i \in rows : i.workspaceId = w /\ i.acceptedAt = NULL}

\* lines 46-61: the list replaces the state; an error is only logged.
\* fresh: the list was loaded after the last change of the store
Reloaded(c, rows, listOk) ==
  IF listOk THEN [c EXCEPT !.invitations = ListPending(rows, c.workspaceId), !.fresh = TRUE]
  ELSE [c EXCEPT !.fresh = (c.fresh /\ rows = invitations)]

loadInvitations(listOk) ==
  /\ wm.workspaceId # NULL
  /\ wm' = Reloaded(wm, invitations, listOk)
  /\ UNCHANGED <<ls, invitations, clock, accVars, canVars, edVars>>

\* lines 68-118: the Invite button with the e-mail and role of the dialog
handleInviteMember(email, role, createOk, listOk) ==
  /\ wm.workspaceId # NULL
  /\ wm.made < MaxInvites
  /\ IF NormalisedEmail(email) = "" \/ ~canPerformAction(wm.userRole, "admin") \/ ~createOk
       THEN UNCHANGED <<invitations, wm>>
       ELSE /\ invitations' = invitations \cup
                 {Invitation(2 + wm.made + 1, wm.workspaceId, NormalisedEmail(email), role,
                             wm.userId, clock.zone, clock.now)}
            /\ wm' = Reloaded([wm EXCEPT !.made = @ + 1], invitations', listOk)
  /\ UNCHANGED <<ls, clock, accVars, canVars, edVars>>

\* lines 137-152: the cancel button of a listed invitation (line 317 shows it
\* to owners only)
handleCancelInvitation(i, deleteOk, listOk) ==
  /\ wm.workspaceId # NULL
  /\ i \in wm.invitations
  /\ canPerformAction(wm.userRole, "admin")
  /\ IF ~deleteOk
       THEN UNCHANGED <<invitations, wm>>
       ELSE /\ invitations' = {j \in invitations : j.id # i.id}
            /\ wm' = Reloaded([wm EXCEPT !.deleted = @ \cup {i.id}], invitations', listOk)
  /\ UNCHANGED <<ls, clock, accVars, canVars, edVars>>

\* the invited person accepts: acceptedAt is set
acceptInvitation(i) ==
  /\ i \in invitations
  /\ i.acceptedAt = NULL
  /\ invitations' = (invitations \ {i}) \cup {[i EXCEPT !.acceptedAt = "set"]}
  /\ wm' = [wm EXCEPT !.fresh = FALSE]
  /\ UNCHANGED <<ls, clock, accVars, canVars, edVars>>

hourPasses ==
  /\ clock.now < MaxStart
  /\ clock' = [clock EXCEPT !.now = @ + 1]
  /\ UNCHANGED <<ls, invitations, wm, accVars, canVars, edVars>>

IdleUi ==
  /\ ls = IdleList
  /\ invitations = {}
  /\ wm = [workspaceId |-> NULL, userRole |-> NULL, userId |-> 0, invitations |-> {},
           fresh |-> FALSE, made |-> 0, deleted |-> {}]
  /\ clock = [now |-> 0, zone |-> NULL]

\* ----------------------------------------------------------- initial states
\* a store with at most one row per (workspace, user): ws1 holds any mix of
\* roles, ws2 has owners only
InitStores ==
  { {MemberRow("ws1", u, f[u]) : u \in {v \in Users : f[v] # NULL}}
      \cup {MemberRow("ws2", u, "owner") : u \in g}
    : f \in [Users -> Roles \cup {NULL}], g \in SUBSET Users }

InitCan ==
  /\ canQuery = [u \in Users |-> [userRole |-> NULL, action |-> NULL]]
  /\ canResult = [u \in Users |-> [done |-> FALSE, allowed |-> FALSE]]

InitAccess ==
  /\ members \in InitStores
  /\ userRole = [u \in Users |-> NULL]
  /\ viewing = [u \in Users |-> NULL]
  /\ rm = [u \in Users |-> IdleCall]

Init == InitAccess /\ InitCan /\ IdleEditor /\ IdleUi

\* calls to removeWorkspaceMember run one after another
Next ==
  \/ \E u \in Users, w \in Workspaces, t \in Users :
       NoCallInFlight /\ removeWorkspaceMember(u, w, t)
  \/ \E u \in Users, t \in Users : NoCallInFlight /\ handleRemoveMember(u, t)
  \/ \E u \in Users : rmCheckAccess(u)
  \/ \E u \in Users : rmCountOwners(u)
  \/ \E u \in Users : rmFindMember(u)
  \/ \E u \in Users : rmDelete(u)
  \/ \E u \in Users : rmReturn(u)
  \/ \E u \in Users, w \in Workspaces : NoCallInFlight /\ loadWorkspaceData(u, w)

Spec == Init /\ [][Next]_vars

\* calls of different requesters interleave at their backend calls
NextConcurrent ==
  \/ \E u \in Users, w \in Workspaces, t \in Users : removeWorkspaceMember(u, w, t)
  \/ \E u \in Users, t \in Users : handleRemoveMember(u, t)
  \/ \E u \in Users : rmCheckAccess(u)
  \/ \E u \in Users : rmCountOwners(u)
  \/ \E u \in Users : rmFindMember(u)
  \/ \E u \in Users : rmDelete(u)
  \/ \E u \in Users : rmReturn(u)
  \/ \E u \in Users, w \in Workspaces : loadWorkspaceData(u, w)

SpecConcurrent == Init /\ [][NextConcurrent]_vars

\* ------------------------------------------- canPerformAction on its inputs
\* a batch of permission questions, one per user, drawn from every role
\* (and the null role WorkspaceDetail starts with) and every action
InitCanInputs ==
  /\ canQuery \in [Users -> [userRole : Roles \cup {NULL}, action : Actions \cup {"other"}]]
  /\ canResult = [u \in Users |-> [done |-> FALSE, allowed |-> FALSE]]
  /\ IdleAccess
  /\ IdleEditor
  /\ IdleUi

canCheck(u) ==
  /\ ~canResult[u].done
  /\ canResult' = [canResult EXCEPT ![u] =
       [done |-> TRUE,
        allowed |-> canPerformAction(canQuery[u].userRole, canQuery[u].action)]]
  /\ UNCHANGED <<canQuery, accVars, edVars, uiVars>>

NextCan == \E u \in Users : canCheck(u)

SpecCan == InitCanInputs /\ [][NextCan]_vars

\* ------------------------------------------------------ the editor sessions
\* Outcomes: the results a backend call can have (TRUE: it succeeds)
NextEditorWith(Outcomes) ==
  \/ \E s \in Sessions, ok \in Outcomes :
       \E failed \in (IF ok THEN {"none"} ELSE LoadFailures \ {"none"}) :
         loadData(s, failed)
  \/ \E s \in Sessions, v \in Vals : handleContentChange(s, v)
  \/ \E s \in Sessions : handleTitleChange(s, "a")
  \/ \E s \in Sessions : handleDescriptionChange(s, "a")
  \/ tick
  \/ \E s \in Sessions : timerFire(s)
  \/ \E s \in Sessions : handleManualSave(s)
  \/ \E s \in Sessions : \E version \in ed[s].versions : restoreVersion(s, version)
  \/ \E c \in saves, ok \in Outcomes : svUpdate(c, ok)
  \/ \E c \in saves, ok \in Outcomes : svCreate(c, ok)
  \/ \E c \in saves, ok \in Outcomes : svList(c, ok)
  \/ \E s \in Sessions : \E m \in inbox[s] : \E self \in Selves(s) : onMessage(s, m, self)
  \/ \E s \in Sessions, ok \in Outcomes : close(s, ok)

NextEditor == NextEditorWith(BOOLEAN)

InitEditors == InitEditor /\ InitCan /\ IdleAccess /\ IdleUi

SpecEditor == InitEditors /\ [][NextEditor]_vars

\* the same editors with a backend that never fails
NextReliable == NextEditorWith({TRUE})

SpecReliable == InitEditors /\ [][NextReliable]_vars

\* the editors opened on a prompt that has been saved once before
InitRestore == InitEditorWith({1}) /\ InitCan /\ IdleAccess /\ IdleUi

SpecRestore == InitRestore /\ [][NextReliable]_vars

\* ------------------------------------------------- the two listing functions
InitLists ==
  /\ members \in InitStores
  /\ userRole = [u \in Users |-> NULL]
  /\ viewing = [u \in Users |-> NULL]
  /\ rm = [u \in Users |-> IdleCall]
  /\ InitCan
  /\ IdleEditor
  /\ IdleUi

NextLists ==
  \/ \E u \in Users : getUserWorkspaces(u)
  \/ \E ok \in BOOLEAN : lsMemberships(ok)
  \/ \E ok \in BOOLEAN : lsWorkspaces(ok)
  \/ \E w \in Workspaces : getWorkspaceMembers(w)
  \/ \E ok \in BOOLEAN : lsMembers(ok)
  \/ lsReturn

SpecLists == InitLists /\ [][NextLists]_vars

\* ------------------------------------------------ the members page of a user
\* the component is mounted for any workspace, role and user, in any zone;
\* the store holds invitations issued earlier, at hour 0, from a browser in
\* UTC (ids 1 and 2)
InitInvite ==
  /\ clock \in [now : {0}, zone : Zones]
  /\ wm \in [workspaceId : Workspaces, userRole : Roles, userId : Users,
              invitations : {{}}, fresh : {FALSE}, made : {0}, deleted : {{}}]
  /\ invitations \in
       {{Invitation(IF w = "ws1" THEN 1 ELSE 2, w, "b@x.io", "viewer", 1, "utc", 0) : w \in ws}
          : ws \in SUBSET Workspaces}
  /\ ls = IdleList
  /\ IdleAccess
  /\ InitCan
  /\ IdleEditor

NextInvite ==
  \/ \E listOk \in BOOLEAN : loadInvitations(listOk)
  \/ \E email \in Emails, role \in {"editor", "viewer"}, createOk \in BOOLEAN,
        listOk \in BOOLEAN : handleInviteMember(email, role, createOk, listOk)
  \/ \E i \in wm.invitations, deleteOk \in BOOLEAN, listOk \in BOOLEAN :
        handleCancelInvitation(i, deleteOk, listOk)
  \/ \E i \in invitations : acceptInvitation(i)
  \/ hourPasses

SpecInvite == InitInvite /\ [][NextInvite]_vars

\* the editors when a page may also be left while its editor is loading
NextLifecycle ==
  \/ NextReliable
  \/ \E s \in Sessions : closeWhileLoading(s)
  \/ \E s \in Sessions : loadAfterClose(s, "none")

SpecLifecycle == InitEditors /\ [][NextLifecycle]_vars

\* ------------------------------------- editors opened by members of any role
\* the workspace the prompt belongs to (Prompt.workspace_id)
PromptWorkspace == "ws1"

\* user 1 owns the prompt's workspace and every other user is a viewer of
\* it; the route /editor/:promptId mounts the editor for whoever opens it
InitGuests ==
  /\ InitEditor
  /\ InitCan
  /\ IdleUi
  /\ members = {MemberRow(PromptWorkspace, 1, "owner")}
                 \cup {MemberRow(PromptWorkspace, u, "viewer") : u \in Users \ {1}}
  /\ userRole = [u \in Users |-> NULL]
  /\ viewing = [u \in Users |-> NULL]
  /\ rm = [u \in Users |-> IdleCall]

SpecGuests == InitGuests /\ [][NextReliable]_vars

\* ------------------------------------------------------- adding members
NextMembers ==
  \/ \E u \in Users, w \in Workspaces, createOk \in BOOLEAN, addOk \in BOOLEAN :
        createWorkspace(u, w, createOk, addOk)
  \/ \E w \in Workspaces, u \in Users, role \in Roles, ok \in BOOLEAN :
        addWorkspaceMember(w, u, role, ok)

SpecMembers == Init /\ [][NextMembers]_vars

\* ====================================================================== claims
\* the role of user u in workspace w according to a store
StoreRole(rows, w, u) ==
  IF ListByUser(rows, w, u) = {} THEN NULL
  ELSE (CHOOSE m \in ListByUser(rows, w, u) : TRUE).role

Finished(u) == rm[u].pc \in {"ok", "failed"}

\* u asked to remove itself while being the only owner of the workspace
SoleOwnerSelfCall(u) ==
  /\ rm[u].pc # "idle"
  /\ rm[u].userId = u
  /\ {m.userId : m \in ListOwners(rm[u].before, rm[u].workspaceId)} = {u}

\* C1: removeMember(w, u, u) by the only owner u of w fails with a
\* WorkspaceAccessError and the membership rows stay exactly as they were
\* before the call: the call never reaches the delete and never returns
\* normally.
C1_SoleOwnerRemovalFails ==
  \A u \in Users :
    SoleOwnerSelfCall(u) =>
      /\ members = rm[u].before
      /\ rm[u].pc \notin {"delete", "ok"}
      /\ Finished(u) => rm[u].code \in {"FORBIDDEN", "NOT_FOUND"}

C1_Witness ==
  \E u \in Users :
    SoleOwnerSelfCall(u) /\ rm[u].pc = "failed" /\ rm[u].msg = "last_owner"

\* C2: a workspace that has an owner still has one after every step of
\* every removeMember call, when the calls run one after another.
C2_OwnerKept ==
  [][\A w \in Workspaces : HasOwner(members, w) => HasOwner(members', w)]_vars

C2_Witness ==
  \E u \in Users :
    /\ rm[u].pc = "ok"
    /\ members # rm[u].before
    /\ ListOwners(rm[u].before, rm[u].workspaceId)
         # ListOwners(members, rm[u].workspaceId)
    /\ HasOwner(members, rm[u].workspaceId)

\* a requester that the store does not make an owner names another user
OutsiderCall(u) ==
  /\ rm[u].pc # "idle"
  /\ rm[u].userId # u
  /\ StoreRole(rm[u].before, rm[u].workspaceId, u) # "owner"

\* C3: a row is deleted only by a call whose requester is an owner according
\* to the store (not the role the client holds) or is the target; a
\* requester who is editor, viewer or no member and names another user gets
\* an error and nothing is deleted, whatever role its client holds.
C3_RemovalAuthorised ==
  /\ [](\A u \in Users :
          OutsiderCall(u) =>
            /\ members = rm[u].before
            /\ rm[u].pc \in {"check", "failed"})
  /\ [][members' # members =>
          \E u \in Users :
            /\ rm[u].pc = "delete"
            /\ rm'[u].pc = "ok"
            /\ members' = {m \in members : m.id # rm[u].rowId}
            /\ rm[u].requestingUserRole = StoreRole(members, rm[u].workspaceId, u)
            /\ rm[u].requestingUserRole = "owner" \/ rm[u].userId = u]_vars

C3_Witness ==
  \E u \in Users :
    /\ OutsiderCall(u)
    /\ rm[u].uiRole = "owner"
    /\ rm[u].pc = "failed"
    /\ ListByUser(members, rm[u].workspaceId, rm[u].userId) # {}

\* C4: canPerformAction is the fixed table over the three roles and the
\* three actions: read for all, write for owner and editor, admin for owner.
C4_CanTable ==
  \A u \in Users :
    (canResult[u].done /\ canQuery[u].userRole \in Roles /\ canQuery[u].action \in Actions) =>
      canResult[u].allowed =
        (<<canQuery[u].userRole, canQuery[u].action>> \in
           { <<"owner", "read">>, <<"owner", "write">>, <<"owner", "admin">>,
             <<"editor", "read">>, <<"editor", "write">>,
             <<"viewer", "read">> })

C4_Witness ==
  \E u \in Users :
    /\ canResult[u].done
    /\ canQuery[u].userRole = "viewer"
    /\ canQuery[u].action = "write"
    /\ ~canResult[u].allowed

\* C5: checkAccess returns the role of the requester's row when there is
\* one, fails with FORBIDDEN when the lookup succeeds and finds no row, and
\* fails with NOT_FOUND when the lookup itself fails.
C5_CheckAccessOutcome ==
  \A u \in Users :
    LET c == rm[u]
        role == StoreRole(c.before, c.workspaceId, u)
    IN c.lookup # NULL =>
         /\ c.lookup = "failed" =>
               c.pc = "failed" /\ c.code = "NOT_FOUND" /\ c.requestingUserRole = NULL
         /\ (c.lookup = "ok" /\ role = NULL) =>
               c.pc = "failed" /\ c.code = "FORBIDDEN" /\ c.requestingUserRole = NULL
         /\ (c.lookup = "ok" /\ role # NULL) =>
               c.requestingUserRole = role /\ c.code # "NOT_FOUND"

C5_Witness ==
  \E u \in Users :
    /\ rm[u].lookup = "failed"
    /\ rm[u].code = "NOT_FOUND"
    /\ StoreRole(rm[u].before, rm[u].workspaceId, u) # NULL

\* ------------------------------------------------------------ editor claims
\* C6: saves of one prompt that never overlap in time, starting from an empty
\* version log, create the version numbers 1, 2, ..., N in this order.
C6_SequentialNumbers ==
  (~overlap /\ env.log0 = 0) =>
    \A i \in 1..Len(dbVersions) : dbVersions[i].version_number = i

\* milliseconds between the last local edit of s and now, while its timer
\* is pending
ElapsedMs(s) == (hist[s].since * SAVE_DELAY_MS) \div TicksPerDelay

\* the step is the timeout of s running its callback
TimerRuns(s) == hist'[s].fired = hist[s].fired + 1

\* C7: a pending save timer is always due 2 seconds after the last local
\* edit and carries the three fields as that edit left them; the timeout
\* runs only when those 2 seconds have passed without another edit, and the
\* save it starts has those fields; unless a manual save or the unmount
\* cleared the timer, the edits up to the last one lead to exactly one
\* timer-driven save.
C7_Debounce ==
  /\ [](\A s \in Sessions :
          /\ timer[s].armed =>
                /\ hist[s].since + timer[s].remaining = TicksPerDelay
                /\ timer[s].draft = hist[s].last
                /\ hist[s].fired = 0
                /\ hist[s].edits > 0
          /\ (hist[s].edits > 0 /\ ~hist[s].cancelled /\ ~timer[s].armed) =>
                hist[s].fired = 1)
  /\ [][\A s \in Sessions :
          TimerRuns(s) =>
            /\ ElapsedMs(s) = SAVE_DELAY_MS
            /\ ~timer'[s].armed
            /\ \A c \in saves' \ saves :
                 c.s = s /\ c.kind = "timer" /\ c.draft = hist[s].last]_vars

C7_Witness ==
  \E s \in Sessions : \E c \in saves :
    /\ c.s = s /\ c.kind = "timer"
    /\ hist[s].edits = 2
    /\ hist[s].fired = 1
    /\ nsaves = 1
    /\ c.draft = hist[s].last

\* the step hands message m to the handler of the mounted editor s
Delivers(s, m) ==
  /\ m \in inbox[s]
  /\ inbox'[s] = inbox[s] \ {m}
  /\ ed'[s].pc = "ready"

\* C8: a content_change message of another user replaces the content, title
\* and description of the receiving editor by those of the message, whatever
\* they were and whether or not an edit of the receiver is pending.
C8_RemoteOverwrites ==
  [][\A s \in Sessions : \A m \in inbox[s] :
       (Delivers(s, m) /\ m.userId # env.who[s]) =>
         /\ ed'[s].content = m.data.content
         /\ ed'[s].title = m.data.title
         /\ ed'[s].description = m.data.description]_vars

C8_Witness ==
  \E s \in Sessions : \E r \in Sessions \ {s} :
    /\ env.who[r] # env.who[s]
    /\ timer[s].armed
    /\ hist[s].edits = 1 /\ hist[r].edits = 1
    /\ inbox[s] = {}
    /\ CurrentDraft(s) = hist[r].last
    /\ CurrentDraft(s) # hist[s].last

\* C9: handing a remote message to an editor arms no timer, starts no save,
\* writes nothing and publishes nothing; an editor whose user has neither
\* edited nor clicked has started no save and published no message.
C9_RemoteApplyIsQuiet ==
  /\ [](\A s \in Sessions :
          ~hist[s].acted =>
            /\ ~timer[s].armed
            /\ hist[s].started = 0 /\ hist[s].published = 0
            /\ \A c \in saves : c.s # s
            /\ \A r \in Sessions : \A m \in inbox[r] : m.from # s)
  /\ [][\A s \in Sessions : \A m \in inbox[s] :
          Delivers(s, m) =>
            /\ timer' = timer /\ saves' = saves /\ nsaves' = nsaves
            /\ dbPrompt' = dbPrompt /\ dbVersions' = dbVersions
            /\ \A r \in Sessions \ {s} : inbox'[r] = inbox[r]]_vars

C9_Witness ==
  \E s \in Sessions : \E r \in Sessions \ {s} :
    /\ ~hist[s].acted
    /\ ed[s].pc = "ready"
    /\ hist[r].edits > 0
    /\ CurrentDraft(s) = hist[r].last
    /\ CurrentDraft(s) # Draft(OrEmpty(NewPrompt.content), OrEmpty(NewPrompt.title),
                                OrEmpty(NewPrompt.description))

\* the step is the save c writing its version record
Creates(c) ==
  /\ c.pc = "create"
  /\ [c EXCEPT !.pc = "list"] \in saves'
  /\ Len(dbVersions') = Len(dbVersions) + 1

\* C10: the version record written by a restore of version K has the
\* content, title and description of K, and every record of the log,
\* K included, stays in the log as it is.
C10_RestoreCopies ==
  /\ [][\A c \in saves :
          (c.kind = "restore" /\ Creates(c)) =>
            /\ dbVersions'[Len(dbVersions')].content = dbVersions[c.from].content
            /\ dbVersions'[Len(dbVersions')].title = dbVersions[c.from].title
            /\ dbVersions'[Len(dbVersions')].description = dbVersions[c.from].description
            /\ dbVersions'[c.from] = dbVersions[c.from]]_vars
  /\ [][\A i \in 1..Len(dbVersions) :
          i <= Len(dbVersions') /\ dbVersions'[i] = dbVersions[i]]_vars

C10_Witness ==
  \E c \in saves :
    /\ c.kind = "restore" /\ c.pc = "list"
    /\ Len(dbVersions) = 2
    /\ c.from = 1
    /\ dbVersions[2].content = dbVersions[1].content
    /\ dbVersions[2].title = dbVersions[1].title
    /\ dbVersions[2].description = dbVersions[1].description
    /\ dbVersions[1].title # dbVersions[1].description

\* the step is a click on Save Now in editor s, whose prompt is loaded
ManualClick(s) ==
  /\ ed[s].prompt
  /\ count' = count + 1
  /\ hist'[s].started = hist[s].started + 1
  /\ hist'[s].published = hist[s].published

\* C11: a click on Save Now in an editor whose prompt is loaded leaves no
\* timer pending and starts exactly one save, at once, with the content,
\* title and description the editor shows; a timer cleared this way never
\* runs its callback, so the edits before the click lead to no save but the
\* one of the click.
C11_ManualSave ==
  /\ [](\A s \in Sessions :
          hist[s].cancelled => (~timer[s].armed /\ hist[s].fired = 0))
  /\ [][\A s \in Sessions :
          ManualClick(s) =>
            /\ ~timer'[s].armed
            /\ nsaves' = nsaves + 1
            /\ \E c \in saves' \ saves :
                 /\ saves' = saves \cup {c}
                 /\ c.s = s /\ c.pc = "update" /\ c.kind = "manual"
                 /\ c.draft = CurrentDraft(s)]_vars

C11_Witness ==
  \E s \in Sessions : \E c \in saves :
    /\ ed[s].pc = "ready"
    /\ hist[s].cancelled
    /\ hist[s].edits = 1
    /\ count = 2
    /\ nsaves = 1
    /\ ~timer[s].armed
    /\ c.s = s /\ c.kind = "manual" /\ c.draft = hist[s].last

\* C12: getUserWorkspaces and getWorkspaceMembers settle without raising;
\* when a list call of theirs failed the result is the empty list; when
\* none failed, getWorkspaceMembers returns the rows of the store whose
\* workspaceId is the one asked for, all of them and no other.
C12_ListsNeverRaise ==
  ls.pc = "done" =>
    /\ ~ls.raised
    /\ (ls.failed /\ ls.fn = "getUserWorkspaces") => ls.result = {}
    /\ (ls.failed /\ ls.fn = "getWorkspaceMembers") => ls.result = << >>
    /\ (~ls.failed /\ ls.fn = "getWorkspaceMembers") =>
         /\ Range(ls.result) = {m \in members : m.workspaceId = ls.arg}
         /\ Len(ls.result) = Cardinality(Range(ls.result))
    /\ (~ls.failed /\ ls.fn = "getUserWorkspaces") =>
         {x.id : x \in ls.result} = {m.workspaceId : m \in ListMemberships(members, ls.arg)}

C12_Witness ==
  /\ ls.pc = "done"
  /\ ls.failed
  /\ ls.fn = "getUserWorkspaces"
  /\ ls.memberships # {}
  /\ ls.result = {}

\* C13: every stored invitation expires exactly 7 days of 24 hours after the
\* time it was created at.
C13_ExpiresInSevenDays ==
  \A i \in invitations : i.expiresAt = i.createdAt + 7 * 24

\* C14: a list loaded after the last create, accept or cancel holds exactly
\* the invitations of the page's workspace that exist in the store and have
\* no acceptedAt; no accepted invitation, no cancelled one and none of
\* another workspace is in it.
C14_PendingList ==
  wm.fresh =>
    /\ wm.invitations =
         {i \in invitations : i.workspaceId = wm.workspaceId /\ i.acceptedAt = NULL}
    /\ \A i \in wm.invitations : i.id \notin wm.deleted /\ i.acceptedAt = NULL

C14_Witness ==
  /\ wm.fresh
  /\ wm.made > 0
  /\ wm.deleted # {}
  /\ wm.invitations # {}
  /\ \E i \in invitations : i.workspaceId = wm.workspaceId /\ i.acceptedAt # NULL
  /\ \E i \in invitations : i.workspaceId # wm.workspaceId

\* an owner of the workspace names a user who has no row in it
AbsentTargetCall(u) ==
  /\ rm[u].pc # "idle"
  /\ StoreRole(rm[u].before, rm[u].workspaceId, u) = "owner"
  /\ ListByUser(rm[u].before, rm[u].workspaceId, rm[u].userId) = {}

\* C15: removeMember by an owner for a user without a row in the workspace
\* never reaches the delete and leaves the rows as they were; it ends with an
\* error only when one of its list calls failed, and returns normally
\* otherwise.
C15_AbsentTargetNoOp ==
  \A u \in Users :
    AbsentTargetCall(u) =>
      /\ members = rm[u].before
      /\ rm[u].pc # "delete"
      /\ rm[u].pc = "failed" => rm[u].msg \in {"lookup_failed", "failed"}

C15_Witness ==
  \E u \in Users :
    /\ AbsentTargetCall(u)
    /\ rm[u].pc = "ok"
    /\ rm[u].lookup = "ok"
    /\ members = rm[u].before

\* C16: when no two saves overlap in time, a version created by the save of
\* one user's session has a number strictly greater than every version
\* created before it by the save of another user's session.
C16_NumberFromLog ==
  ~overlap =>
    \A i \in 1..Len(dbVersions) : \A j \in 1..Len(dbVersions) :
      (i < j /\ dbVersions[i].user_id # dbVersions[j].user_id) =>
        dbVersions[i].version_number < dbVersions[j].version_number

\* C17: with removeMember calls of different requesters interleaving at their
\* backend calls, a workspace that had an owner when a call began still has
\* one in every state of that call.
C17_OwnerKeptConcurrently ==
  \A u \in Users :
    (rm[u].pc # "idle" /\ HasOwner(rm[u].before, rm[u].workspaceId)) =>
      HasOwner(members, rm[u].workspaceId)

\* C18: an editor whose user is a viewer of the prompt's workspace starts no
\* save, publishes no content_change message and creates no version record.
C18_ViewerNeverWrites ==
  \A s \in Sessions :
    StoreRole(members, PromptWorkspace, env.who[s]) = "viewer" =>
      /\ hist[s].started = 0
      /\ hist[s].published = 0
      /\ \A i \in 1..Len(dbVersions) : dbVersions[i].user_id # env.who[s]

\* C19: an editor that has been closed is not subscribed to the channel of
\* the prompt any more and is not among the sessions the channel reports as
\* online to the open editors of other users.
C19_ClosedIsUnsubscribed ==
  \A s \in Sessions :
    ed[s].pc = "closed" =>
      /\ ~ed[s].subscribed
      /\ \A r \in Sessions : ed[r].pc = "ready" => s \notin OnlineFor(r)

\* C20: a closed editor has no timer pending and starts no save; a timer that
\* was pending at the close never runs, so when the closed editor started no
\* save before, its edits left no version record.
C20_CloseCancelsTimer ==
  /\ [](\A s \in Sessions :
          ed[s].pc = "closed" =>
            /\ ~timer[s].armed
            /\ hist[s].cancelled => hist[s].fired = 0
            /\ (hist[s].started = 0 /\ \A r \in Sessions \ {s} : env.who[r] # env.who[s]) =>
                 \A i \in 1..Len(dbVersions) : dbVersions[i].user_id # env.who[s])
  /\ [][\A s \in Sessions :
          ed[s].pc = "closed" =>
            /\ hist'[s].fired = hist[s].fired
            /\ hist'[s].started = hist[s].started
            /\ \A c \in saves' : c.s = s => \E d \in saves : d.id = c.id]_vars

C20_Witness ==
  \E s \in Sessions :
    /\ ed[s].pc = "closed"
    /\ hist[s].cancelled
    /\ hist[s].edits = 1
    /\ hist[s].since < TicksPerDelay
    /\ hist[s].started = 0
    /\ dbVersions = << >>
    /\ dbPrompt = NewPrompt
    /\ hist[s].last.content # NewPrompt.content

\* C21: a closed editor whose load is not running any more has left no
\* presence record of its own in the store.
C21_NoPresenceRowLeft ==
  \A s \in Sessions : ed[s].pc = "closed" => s \notin dbSessions

\* the step is a local edit in editor s
Edits(s) == hist'[s].edits = hist[s].edits + 1

C23_VersionFollowsLog ==
  (saves = {} /\ ~overlap /\ Len(dbVersions) > 0) =>
    dbPrompt.version = SetMax({dbVersions[i].version_number : i \in 1..Len(dbVersions)})

\* C24: in every step of the editors the version log keeps all its records,
\* each one as it was, and at most one record is added at its end.
C24_LogAppendOnly ==
  [][/\ Len(dbVersions') \in {Len(dbVersions), Len(dbVersions) + 1}
     /\ SubSeq(dbVersions', 1, Len(dbVersions)) = dbVersions]_vars

C24_Witness ==
  /\ Len(dbVersions) = 2
  /\ dbVersions[1].content # dbVersions[2].content
  /\ dbVersions[1].version_number = dbVersions[2].version_number
  /\ \E s \in Sessions : ed[s].pc = "closed"

\* the step is the save c ending in the catch of savePrompt: its prompt
\* update or its version create failed
SaveFails(c) ==
  /\ c.pc \in {"update", "create"}
  /\ \A d \in saves' : d.id # c.id

\* C25: when the update or the create of a save fails, the editor keeps its
\* content, title and description and its last-saved mark, and is not saving
\* any more; the version log stays as it is, and if the update failed the
\* prompt row stays as it is too.
C25_FailedSaveKeepsEdits ==
  [][\A c \in saves :
       SaveFails(c) =>
         /\ ed'[c.s].content = ed[c.s].content
         /\ ed'[c.s].title = ed[c.s].title
         /\ ed'[c.s].description = ed[c.s].description
         /\ ed'[c.s].lastSaved = ed[c.s].lastSaved
         /\ ~ed'[c.s].isSaving
         /\ dbVersions' = dbVersions
         /\ c.pc = "update" => dbPrompt' = dbPrompt]_vars

C25_Witness ==
  \E s \in Sessions :
    /\ ed[s].pc = "ready"
    /\ hist[s].edits > 0
    /\ hist[s].started = 1
    /\ nsaves = 1
    /\ saves = {}
    /\ ~ed[s].isSaving
    /\ ed[s].lastSaved = 0
    /\ CurrentDraft(s) = hist[s].last
    /\ dbVersions = << >>
    /\ dbPrompt = NewPrompt

\* the step is the save c writing the prompt row
Updates(c) ==
  /\ c.pc = "update"
  /\ [c EXCEPT !.pc = "create"] \in saves'

\* C26: when the timer of an editor runs after the fields shown were
\* replaced (by a remote message) since its last local edit, the save it
\* starts carries the fields of that last local edit, not the ones shown;
\* and what a timer save writes to the prompt row are the fields it carries.
C26_TimerSavesOwnEdit ==
  /\ [][\A s \in Sessions :
          (TimerRuns(s) /\ ed[s].prompt /\ CurrentDraft(s) # hist[s].last) =>
            \E c \in saves' :
              /\ c.id = nsaves' /\ c.s = s /\ nsaves' = nsaves + 1
              /\ c.draft = hist[s].last]_vars
  /\ [][\A c \in saves :
          (c.kind = "timer" /\ Updates(c)) =>
            /\ dbPrompt'.content = c.draft.content
            /\ dbPrompt'.title = c.draft.title
            /\ dbPrompt'.description = c.draft.description]_vars

C26_Witness ==
  \E s \in Sessions : \E r \in Sessions \ {s} : \E c \in saves :
    /\ c.s = s /\ c.kind = "timer" /\ c.pc \in {"create", "list"}
    /\ hist[s].edits = 1 /\ hist[r].edits = 1
    /\ c.draft = hist[s].last
    /\ CurrentDraft(s) = hist[r].last
    /\ CurrentDraft(s) # c.draft
    /\ dbPrompt.content = c.draft.content
    /\ dbPrompt.title = c.draft.title

\* C27: the membership store never holds two rows for the same workspace
\* and user.
C27_OneRowPerMember ==
  \A w \in Workspaces : \A u \in Users : Cardinality(ListByUser(members, w, u)) <= 1

\* C28: while one editor is the only one opened on the prompt, the version
\* records it has created carry pairwise distinct version numbers, whatever
\* the order of its edits, timer runs, manual saves, restores and the steps
\* of its saves in flight.
C28_OwnNumbersDistinct ==
  \A s \in Sessions :
    (env.log0 = 0 /\ \A r \in Sessions \ {s} : ed[r].pc = "loading") =>
      \A i \in 1..Len(dbVersions) : \A j \in 1..Len(dbVersions) :
        i < j => dbVersions[i].version_number # dbVersions[j].version_number

\* C29: once the save of a restore of version K has finished, and until the
\* editor is edited or saved by hand, restores again, or another editor's
\* save writes the prompt, the prompt row holds the content, title and
\* description of K.
C29_RestoreStays ==
  \A s \in Sessions : \A k \in hist[s].restored :
    k.done =>
      /\ dbPrompt.content = k.draft.content
      /\ dbPrompt.title = k.draft.title
      /\ dbPrompt.description = k.draft.description

\* C30: when the editors of different users are all open and subscribed, each
\* has made a local edit, and every published message has been delivered,
\* they all show the same content, title and description.
C30_Convergence ==
  (/\ \A s \in Sessions :
        /\ ed[s].pc = "ready" /\ ed[s].prompt /\ ed[s].subscribed
        /\ hist[s].edits > 0
        /\ inbox[s] = {}
   /\ \A s \in Sessions : \A r \in Sessions \ {s} : env.who[s] # env.who[r]) =>
    \A s \in Sessions : \A r \in Sessions : CurrentDraft(s) = CurrentDraft(r)

====
